---- MODULE Spec2Model ----
(***************************************************************************)
(* Model of src/main.rs: the decode-produce loop (AudioPlayer::play), the  *)
(* output stream callback and the key-driven control loop (main), sharing  *)
(* the per-field mutexes of AudioPlayer and the sample ring buffer.        *)
(*                                                                         *)
(* Numbers.  Samples are integers (fixed point, so that the mean of two    *)
(* decoded samples is exact); volume is counted in tenths (1.0 = 10);      *)
(* times are counted in source frames (1 s = input_sample_rate frames), so *)
(* that samples.len() / (rate * channels) is the frame count of the unit.  *)
(* Option<f64> is a sequence: <<>> is None, <<v>> is Some(v).              *)
(***************************************************************************)
EXTENDS Integers, Sequences, FiniteSets, TLC

\* ---- bounds of the model ------------------------------------------------
NumUnits == 3           \* packets in the source file
UnitFrames == 2         \* frames a decoded packet holds
MaxReqFrames == 2       \* frames the device may request in one callback
input_sample_rate == 1  \* frames per second of the source
output_sample_rate == 1 \* frames per second of the device
UpPresses == 21         \* Up presses of the longest volume session
DownPresses == 11       \* Down presses of the longest volume session

\* ---- program constants --------------------------------------------------
SeekSeconds == 5        \* Left/Right move by 5.0 seconds
VolumeStep == 1         \* Up/Down move by 0.1
VolumeMax == 20         \* clamp at 2.0
VolumeInit == 10        \* AudioPlayer::new: volume 1.0
Junk == 99              \* content of a device buffer slot not yet written

\* ---- the sessions checked ------------------------------------------------
\* The key presses of a session, in order; the user may stop pressing at any
\* point, so every prefix of a script is a session too.
KeyScripts ==
    { << "space", "quit" >>, << "right", "left" >>, << "up", "down" >> }

\* << input_channels, output_channels >> of the sessions checked.
ChannelPairs == { << 1, 1 >>, << 1, 2 >>, << 2, 1 >>, << 2, 2 >> }

VARIABLES
    is_paused, should_stop, seek_position, volume, current_time,  \* AudioPlayer
    sample_buffer,                    \* VecDeque<f32> shared with the callback
    input_channels, output_channels,  \* discovered in play()
    srcPos,                           \* index of the next packet of the source
    ppc, pos, buf, perr,              \* decode-produce loop: position, locals, stderr
    cpc, paused, vol, data,           \* callback: position, locals, device slice
    kpc, new_position, script,        \* control loop: position, local, keys still to come
    stale, nReq, nSeek                \* history: see below

vars == << is_paused, should_stop, seek_position, volume, current_time,
           sample_buffer, input_channels, output_channels, srcPos,
           ppc, pos, buf, perr, cpc, paused, vol, data,
           kpc, new_position, script, stale, nReq, nSeek >>

shared == << is_paused, should_stop, seek_position, volume, current_time >>
prodLocal == << ppc, pos, buf, perr >>
consLocal == << cpc, paused, vol, data >>
ctrlLocal == << kpc, new_position, script >>
session == << input_channels, output_channels >>
history == << stale, nReq, nSeek >>

None == << >>
Some(v) == << v >>

Min(a, b) == IF a <= b THEN a ELSE b
Max(a, b) == IF a >= b THEN a ELSE b

\* The high-water mark of the backpressure check (main.rs:165).
HighWaterMark == output_sample_rate * output_channels * 2

\* ---- the decoder's output ----------------------------------------------
\* Sample of packet p, channel c (1-based): a nonzero even number that tells
\* packets and channels apart.
SampleOf(p, c) == 2 * (p + 1) + 2 * (c - 1)

\* buf.samples() of packet p decoded to f whole frames: interleaved.
Decoded(p, f) ==
    [ i \in 1..(f * input_channels) |-> SampleOf(p, ((i - 1) % input_channels) + 1) ]

\* ---- channel conversion (main.rs:195-230) ------------------------------
\* Mutant: the general up-mix fills as many slots as the source has channels.
RemapFrame_UpmixByInput(samples, i) ==
    LET frame_start == i * input_channels IN
    IF input_channels = 1 /\ output_channels = 2
    THEN << samples[frame_start + 1], samples[frame_start + 1] >>
    ELSE IF input_channels = 2 /\ output_channels = 1
    THEN << (samples[frame_start + 1] + samples[frame_start + 2]) \div 2 >>
    ELSE IF input_channels >= output_channels
    THEN [ ch \in 1..output_channels |-> samples[frame_start + ch] ]
    ELSE [ ch \in 1..input_channels |-> samples[frame_start + 1] ]

\* Mutant: the general down-mix keeps the last channels of the frame.
RemapFrame_KeepsLast(samples, i) ==
    LET frame_start == i * input_channels IN
    IF input_channels = 1 /\ output_channels = 2
    THEN << samples[frame_start + 1], samples[frame_start + 1] >>
    ELSE IF input_channels = 2 /\ output_channels = 1
    THEN << (samples[frame_start + 1] + samples[frame_start + 2]) \div 2 >>
    ELSE IF input_channels >= output_channels
    THEN [ ch \in 1..output_channels |->
             samples[frame_start + input_channels - output_channels + ch] ]
    ELSE [ ch \in 1..output_channels |-> samples[frame_start + 1] ]

\* The samples pushed for frame i (0-based) of samples.
RemapFrame(samples, i) ==
    LET frame_start == i * input_channels IN
    IF input_channels = 1 /\ output_channels = 2
    THEN << samples[frame_start + 1], samples[frame_start + 1] >>
    ELSE IF input_channels = 2 /\ output_channels = 1
    THEN << (samples[frame_start + 1] + samples[frame_start + 2]) \div 2 >>
    ELSE IF input_channels >= output_channels
    THEN [ ch \in 1..output_channels |-> samples[frame_start + ch] ]
    ELSE [ ch \in 1..output_channels |-> samples[frame_start + 1] ]

RECURSIVE RemapFrames(_, _, _)
RemapFrames(samples, i, frame_count) ==
    IF i >= frame_count THEN << >>
    ELSE RemapFrame(samples, i) \o RemapFrames(samples, i + 1, frame_count)

\* What one decoded unit appends to the ring buffer.
Converted(samples) ==
    IF input_channels = output_channels
    THEN samples
    ELSE RemapFrames(samples, 0, Len(samples) \div input_channels)

\* ---- Init: AudioPlayer::new, main before the threads run ----------------
\* A session of one of the given channel pairs and key scripts.
InitWith(pairs, scripts) ==
    /\ is_paused = FALSE
    /\ should_stop = FALSE
    /\ seek_position = None
    /\ volume = VolumeInit
    /\ current_time = 0
    /\ sample_buffer = << >>
    /\ \E pair \in pairs :
         input_channels = pair[1] /\ output_channels = pair[2]
    /\ srcPos = 0
    /\ ppc = "start" /\ pos = 0 /\ buf = << >> /\ perr = "none"
    /\ cpc = "idle" /\ paused = FALSE /\ vol = VolumeInit /\ data = << >>
    /\ kpc = "head" /\ new_position = 0 /\ script \in scripts
    /\ stale = 0 /\ nReq = 0 /\ nSeek = 0

Init == InitWith(ChannelPairs, KeyScripts)

\* ============================ the locks ==================================
\* Every shared field is a Mutex of its own.  A step of the model takes the
\* locks it needs and lets them go before it ends, but for the
\* seek_position guard of the if-let at main.rs:130, which lives across
\* format.seek.  Holds: the locks an actor keeps between two of its steps.
\* Needs: the locks its next step acquires.

\* Mutant: the backpressure wait sleeps without drop(sample_buf).
ProducerHolds_SleepsWithBuffer ==
    IF ppc = "seeking" THEN {"seek_position"}
    ELSE IF ppc = "bp_sleep" THEN {"sample_buffer"}
    ELSE {}

\* main.rs:119-193: the guards of 119, 124, 175 and 180 are temporaries of
\* an if condition; sample_buf of 163 is dropped at 167 or 171, buf of 181
\* at 184, sample_buf of 188 at the end of the match arm.
ProducerHolds ==
    IF ppc = "seeking" THEN {"seek_position"} ELSE {}

ProducerNeeds ==
    CASE ppc = "head" -> {"should_stop"}
      [] ppc = "chk_pause" -> {"is_paused"}
      [] ppc = "seek" -> {"seek_position"}
      [] ppc = "seeking" -> {"current_time"}
      [] ppc = "bp_check" -> {"sample_buffer"}
      [] ppc = "bp_stop" -> {"should_stop"}
      [] ppc = "bp_seek" -> {"seek_position"}
      [] ppc = "bp_clear" -> {"sample_buffer"}
      [] ppc = "append" -> {"sample_buffer", "current_time"}
      [] OTHER -> {}

\* main.rs:96-109: paused and vol are copied out of temporaries; buffer of
\* 106 is locked and dropped inside the fill.
CallbackHolds == {}

CallbackNeeds ==
    CASE cpc = "idle" -> {"is_paused"}
      [] cpc = "vol" -> {"volume"}
      [] cpc = "fill" -> IF paused THEN {} ELSE {"sample_buffer"}
      [] OTHER -> {}

\* Mutant: the Left/Right handlers keep the current_time guard while they
\* lock seek_position.
ControlHolds_KeepsTime ==
    IF kpc = "seek_write" THEN {"current_time"} ELSE {}

\* main.rs:294-345: every handler locks one field; `current` of 317 and 324
\* is copied out of a temporary before seek_position is locked.
ControlHolds == {}

ControlNeeds ==
    CASE kpc = "head" -> {"should_stop"}
      [] kpc = "poll" /\ script # << >> ->
           ( CASE Head(script) = "space" -> {"is_paused"}
               [] Head(script) \in {"left", "right"} -> {"current_time"}
               [] Head(script) \in {"up", "down"} -> {"volume"}
               [] Head(script) = "quit" -> {"should_stop"}
               [] OTHER -> {} )
      [] kpc = "seek_write" -> {"seek_position"}
      [] OTHER -> {}

\* A Mutex::lock() returns once no other thread holds the lock.
ProducerCanLock == ProducerNeeds \cap (CallbackHolds \cup ControlHolds) = {}
CallbackCanLock == CallbackNeeds \cap (ProducerHolds \cup ControlHolds) = {}
ControlCanLock == ControlNeeds \cap (ProducerHolds \cup CallbackHolds) = {}

\* ======================= decode-produce loop ============================
\* History variables.  stale: how many samples at the front of the ring
\* buffer were decoded before the most recent successful source seek.
\* nReq / nSeek: seek requests written / source-level seeks attempted.

\* play() up to stream.play(): any `?` may return early (main.rs:47-115).
ProducerStart ==
    /\ ppc = "start"
    /\ \E ok \in BOOLEAN :
         /\ ppc' = IF ok THEN "head" ELSE "done"
         /\ perr' = IF ok THEN "none" ELSE "play"
    /\ UNCHANGED << shared, sample_buffer, session, srcPos, pos, buf,
                    consLocal, ctrlLocal, history >>

\* Mutant: the pause check shadows the stop check.
ProducerHead_PauseFirst ==
    /\ ppc = "head"
    /\ ppc' = IF should_stop /\ ~is_paused THEN "done" ELSE "chk_pause"
    /\ perr' = "none"
    /\ UNCHANGED << shared, sample_buffer, session, srcPos, pos, buf,
                    consLocal, ctrlLocal, history >>

\* main.rs:119-121
ProducerHead ==
    /\ ppc = "head"
    /\ ProducerCanLock
    /\ ppc' = IF should_stop THEN "done" ELSE "chk_pause"
    /\ perr' = "none"
    /\ UNCHANGED << shared, sample_buffer, session, srcPos, pos, buf,
                    consLocal, ctrlLocal, history >>

\* Mutant: the loop head does not look at is_paused.
ProducerCheckPause_Ignores ==
    /\ ppc = "chk_pause"
    /\ ppc' = "seek"
    /\ perr' = "none"
    /\ UNCHANGED << shared, sample_buffer, session, srcPos, pos, buf,
                    consLocal, ctrlLocal, history >>

\* main.rs:124
ProducerCheckPause ==
    /\ ppc = "chk_pause"
    /\ ProducerCanLock
    /\ ppc' = IF is_paused THEN "pause_sleep" ELSE "seek"
    /\ perr' = "none"
    /\ UNCHANGED << shared, sample_buffer, session, srcPos, pos, buf,
                    consLocal, ctrlLocal, history >>

\* main.rs:125-126
ProducerPauseSleep ==
    /\ ppc = "pause_sleep"
    /\ ppc' = "head"
    /\ perr' = "none"
    /\ UNCHANGED << shared, sample_buffer, session, srcPos, pos, buf,
                    consLocal, ctrlLocal, history >>

\* Mutant: the pending seek is read but not cleared.
ProducerTakeSeek_NoClear ==
    /\ ppc = "seek"
    /\ IF seek_position # None
       THEN /\ pos' = seek_position[1]
            /\ ppc' = "seeking"
       ELSE /\ ppc' = "read"
            /\ UNCHANGED pos
    /\ perr' = "none"
    /\ UNCHANGED << shared, sample_buffer, session, srcPos, buf,
                    consLocal, ctrlLocal, history >>

\* main.rs:130: seek_position.lock().unwrap().take(); the guard of the
\* scrutinee lives to the end of the if-let, so the lock stays held in
\* "seeking".  The control loop holds this lock only inside one step.
ProducerTakeSeek ==
    /\ ppc = "seek"
    /\ ProducerCanLock
    /\ IF seek_position # None
       THEN /\ pos' = seek_position[1]
            /\ seek_position' = None
            /\ ppc' = "seeking"
       ELSE /\ ppc' = "read"
            /\ UNCHANGED << pos, seek_position >>
    /\ perr' = "none"
    /\ UNCHANGED << is_paused, should_stop, volume, current_time,
                    sample_buffer, session, srcPos, buf,
                    consLocal, ctrlLocal, history >>

\* The packet format.seek lands on for a time (in frames): the one holding
\* that frame, or the end of the file.
PacketAt(t) == Min(t \div UnitFrames, NumUnits)

\* Mutant: elapsed time is set to the target before the seek is known to
\* have succeeded.
ProducerSeeking_TimeOnFailure ==
    /\ ppc = "seeking"
    /\ \E ok \in BOOLEAN :
         IF ok
         THEN /\ current_time' = pos
              /\ srcPos' = PacketAt(pos)
              /\ stale' = Len(sample_buffer)
              /\ perr' = "none"
         ELSE /\ current_time' = pos
              /\ perr' = "seek"
              /\ UNCHANGED << srcPos, stale >>
    /\ nSeek' = nSeek + 1
    /\ pos' = 0
    /\ ppc' = "read"
    /\ UNCHANGED << is_paused, should_stop, seek_position, volume,
                    sample_buffer, session, buf,
                    consLocal, ctrlLocal, nReq >>

\* main.rs:131-140: format.seek; the library decides whether it succeeds.
ProducerSeeking ==
    /\ ppc = "seeking"
    /\ ProducerCanLock
    /\ \E ok \in BOOLEAN :
         IF ok
         THEN /\ current_time' = pos
              /\ srcPos' = PacketAt(pos)
              /\ stale' = Len(sample_buffer)
              /\ perr' = "none"
         ELSE /\ perr' = "seek"
              /\ UNCHANGED << current_time, srcPos, stale >>
    /\ nSeek' = nSeek + 1
    /\ pos' = 0
    /\ ppc' = "read"
    /\ UNCHANGED << is_paused, should_stop, seek_position, volume,
                    sample_buffer, session, buf,
                    consLocal, ctrlLocal, nReq >>

\* main.rs:143-154: format.next_packet() and the track filter.  The
\* packet read is number srcPos; after the read it is number srcPos - 1.
ProducerRead ==
    /\ ppc = "read"
    /\ \E r \in (IF srcPos = NumUnits THEN {"eof", "err"}
                                      ELSE {"packet", "other", "err"}) :
         /\ srcPos' = IF r \in {"packet", "other"} THEN srcPos + 1 ELSE srcPos
         /\ ppc' = CASE r = "packet" -> "decode"
                     [] r = "other" -> "head"
                     [] OTHER -> "done"
         /\ perr' = IF r = "err" THEN "read" ELSE "none"
    /\ UNCHANGED << shared, sample_buffer, session, pos, buf,
                    consLocal, ctrlLocal, history >>

\* Mutant: a decode error ends the loop.
ProducerDecode_Fatal ==
    /\ ppc = "decode"
    /\ \E ok \in BOOLEAN :
         IF ok
         THEN /\ buf' = Decoded(srcPos - 1, UnitFrames)
              /\ ppc' = "bp_check"
              /\ perr' = "none"
         ELSE /\ buf' = << >>
              /\ ppc' = "done"
              /\ perr' = "decode"
    /\ UNCHANGED << shared, sample_buffer, session, srcPos, pos,
                    consLocal, ctrlLocal, history >>

\* main.rs:156-159 and 232: decoder.decode and copy_interleaved_ref.
ProducerDecode ==
    /\ ppc = "decode"
    /\ \E ok \in BOOLEAN :
         IF ok
         THEN /\ buf' = Decoded(srcPos - 1, UnitFrames)
              /\ ppc' = "bp_check"
              /\ perr' = "none"
         ELSE /\ buf' = << >>
              /\ ppc' = "head"
              /\ perr' = "decode"
    /\ UNCHANGED << shared, sample_buffer, session, srcPos, pos,
                    consLocal, ctrlLocal, history >>

\* Mutant: no backpressure, the unit is appended whatever the length.
ProducerBpCheck_NoWait ==
    /\ ppc = "bp_check"
    /\ ppc' = "append"
    /\ perr' = "none"
    /\ UNCHANGED << shared, sample_buffer, session, srcPos, pos, buf,
                    consLocal, ctrlLocal, history >>

\* main.rs:163-171: the length check under the buffer lock.
ProducerBpCheck ==
    /\ ppc = "bp_check"
    /\ ProducerCanLock
    /\ ppc' = IF Len(sample_buffer) <= HighWaterMark THEN "append" ELSE "bp_sleep"
    /\ perr' = "none"
    /\ UNCHANGED << shared, sample_buffer, session, srcPos, pos, buf,
                    consLocal, ctrlLocal, history >>

\* main.rs:172
ProducerBpSleep ==
    /\ ppc = "bp_sleep"
    /\ ppc' = "bp_stop"
    /\ perr' = "none"
    /\ UNCHANGED << shared, sample_buffer, session, srcPos, pos, buf,
                    consLocal, ctrlLocal, history >>

\* Mutant: the backpressure wait does not look at should_stop.
ProducerBpStop_NoCheck ==
    /\ ppc = "bp_stop"
    /\ ppc' = "bp_seek"
    /\ perr' = "none"
    /\ UNCHANGED << shared, sample_buffer, session, srcPos, pos, buf,
                    consLocal, ctrlLocal, history >>

\* main.rs:175-177: return Ok(()) drops the stream too.
ProducerBpStop ==
    /\ ppc = "bp_stop"
    /\ ProducerCanLock
    /\ ppc' = IF should_stop THEN "done" ELSE "bp_seek"
    /\ perr' = "none"
    /\ UNCHANGED << shared, sample_buffer, session, srcPos, pos, buf,
                    consLocal, ctrlLocal, history >>

\* Mutant: the backpressure wait does not look at seek_position.
ProducerBpSeek_Ignore ==
    /\ ppc = "bp_seek"
    /\ ppc' = "bp_check"
    /\ perr' = "none"
    /\ UNCHANGED << shared, sample_buffer, session, srcPos, pos, buf,
                    consLocal, ctrlLocal, history >>

\* main.rs:180: is_some() peeks; the guard is dropped with the condition.
ProducerBpSeek ==
    /\ ppc = "bp_seek"
    /\ ProducerCanLock
    /\ ppc' = IF seek_position # None THEN "bp_clear" ELSE "bp_check"
    /\ perr' = "none"
    /\ UNCHANGED << shared, sample_buffer, session, srcPos, pos, buf,
                    consLocal, ctrlLocal, history >>

\* main.rs:181-183
ProducerBpClear ==
    /\ ppc = "bp_clear"
    /\ ProducerCanLock
    /\ sample_buffer' = << >>
    /\ stale' = 0
    /\ ppc' = "append"
    /\ perr' = "none"
    /\ UNCHANGED << shared, session, srcPos, pos, buf,
                    consLocal, ctrlLocal, nReq, nSeek >>

\* Mutant: the unit's duration is taken from the converted samples.
ProducerAppend_ConvertedDuration ==
    /\ ppc = "append"
    /\ ProducerCanLock
    /\ current_time' = current_time + (Len(Converted(buf)) \div input_channels)
    /\ sample_buffer' = sample_buffer \o Converted(buf)
    /\ buf' = << >>
    /\ ppc' = "head"
    /\ perr' = "none"
    /\ UNCHANGED << is_paused, should_stop, seek_position, volume,
                    session, srcPos, pos, consLocal, ctrlLocal, history >>

\* main.rs:188-230: under the buffer lock, advance current_time by the
\* unit's duration and push the converted samples.
ProducerAppend ==
    /\ ppc = "append"
    /\ ProducerCanLock
    /\ current_time' = current_time + (Len(buf) \div input_channels)
    /\ sample_buffer' = sample_buffer \o Converted(buf)
    /\ buf' = << >>
    /\ ppc' = "head"
    /\ perr' = "none"
    /\ UNCHANGED << is_paused, should_stop, seek_position, volume,
                    session, srcPos, pos, consLocal, ctrlLocal, history >>

Producer ==
    \/ ProducerStart
    \/ ProducerHead
    \/ ProducerCheckPause
    \/ ProducerPauseSleep
    \/ ProducerTakeSeek
    \/ ProducerSeeking
    \/ ProducerRead
    \/ ProducerDecode
    \/ ProducerBpCheck
    \/ ProducerBpSleep
    \/ ProducerBpStop
    \/ ProducerBpSeek
    \/ ProducerBpClear
    \/ ProducerAppend

\* ===================== output stream callback ===========================
\* The stream exists from build_output_stream to drop(stream).
StreamAlive == ppc \notin {"start", "done"}

\* main.rs:95-96: the device hands over a slice of whole frames; paused is
\* read first.
CallbackStart ==
    /\ cpc = "idle"
    /\ StreamAlive
    /\ CallbackCanLock
    /\ \E frames \in 1..MaxReqFrames :
         data' = [ i \in 1..(frames * output_channels) |-> Junk ]
    /\ paused' = is_paused
    /\ cpc' = "vol"
    /\ UNCHANGED << shared, sample_buffer, session, srcPos, prodLocal, vol,
                    ctrlLocal, history >>

\* main.rs:97
CallbackVolume ==
    /\ cpc = "vol"
    /\ CallbackCanLock
    /\ vol' = volume
    /\ cpc' = "fill"
    /\ UNCHANGED << shared, sample_buffer, session, srcPos, prodLocal,
                    paused, data, ctrlLocal, history >>

\* Mutant: the paused branch drains the buffer while writing silence.
CallbackFill_PopsWhenPaused ==
    /\ cpc = "fill"
    /\ LET popped == Min(Len(data), Len(sample_buffer)) IN
       /\ data' = [ i \in 1..Len(data) |->
                       IF paused THEN 0
                       ELSE (IF i <= Len(sample_buffer) THEN sample_buffer[i] ELSE 0) * vol ]
       /\ sample_buffer' = SubSeq(sample_buffer, popped + 1, Len(sample_buffer))
       /\ stale' = Max(stale - popped, 0)
    /\ cpc' = "idle"
    /\ UNCHANGED << shared, session, srcPos, prodLocal, paused, vol,
                    ctrlLocal, nReq, nSeek >>

\* Mutant: the popped samples are not scaled by the volume.
CallbackFill_NoVolume ==
    /\ cpc = "fill"
    /\ IF paused
       THEN /\ data' = [ i \in 1..Len(data) |-> 0 ]
            /\ UNCHANGED << sample_buffer, stale >>
       ELSE LET popped == Min(Len(data), Len(sample_buffer)) IN
            /\ data' = [ i \in 1..Len(data) |->
                           IF i <= Len(sample_buffer) THEN sample_buffer[i] ELSE 0 ]
            /\ sample_buffer' = SubSeq(sample_buffer, popped + 1, Len(sample_buffer))
            /\ stale' = Max(stale - popped, 0)
    /\ cpc' = "idle"
    /\ UNCHANGED << shared, session, srcPos, prodLocal, paused, vol,
                    ctrlLocal, nReq, nSeek >>

\* main.rs:99-109: silence when paused, else pop_front().unwrap_or(0.0) * vol
\* for every slot, under the buffer lock.
CallbackFill ==
    /\ cpc = "fill"
    /\ CallbackCanLock
    /\ IF paused
       THEN /\ data' = [ i \in 1..Len(data) |-> 0 ]
            /\ UNCHANGED << sample_buffer, stale >>
       ELSE LET popped == Min(Len(data), Len(sample_buffer)) IN
            /\ data' = [ i \in 1..Len(data) |->
                           (IF i <= Len(sample_buffer) THEN sample_buffer[i] ELSE 0) * vol ]
            /\ sample_buffer' = SubSeq(sample_buffer, popped + 1, Len(sample_buffer))
            /\ stale' = Max(stale - popped, 0)
    /\ cpc' = "idle"
    /\ UNCHANGED << shared, session, srcPos, prodLocal, paused, vol,
                    ctrlLocal, nReq, nSeek >>

Callback ==
    \/ CallbackStart
    \/ CallbackVolume
    \/ CallbackFill

\* ========================== control loop ================================
\* Mutant: the loop head does not look at play_thread.is_finished().
ControlHead_IgnoresFinished ==
    /\ kpc = "head"
    /\ kpc' = IF should_stop THEN "join" ELSE "poll"
    /\ UNCHANGED << shared, sample_buffer, session, srcPos, prodLocal,
                    consLocal, new_position, script, history >>

\* main.rs:289-296
ControlHead ==
    /\ kpc = "head"
    /\ ControlCanLock
    /\ kpc' = IF ppc = "done" \/ should_stop THEN "join" ELSE "poll"
    /\ UNCHANGED << shared, sample_buffer, session, srcPos, prodLocal,
                    consLocal, new_position, script, history >>

\* main.rs:299-304: the poll times out, or the event is no key press.
ControlPollIdle ==
    /\ kpc = "poll"
    /\ kpc' = "head"
    /\ UNCHANGED << shared, sample_buffer, session, srcPos, prodLocal,
                    consLocal, new_position, script, history >>

\* main.rs:307-315
KeySpace ==
    /\ kpc = "poll" /\ script # << >> /\ Head(script) = "space"
    /\ ControlCanLock
    /\ is_paused' = ~is_paused
    /\ script' = Tail(script)
    /\ kpc' = "head"
    /\ UNCHANGED << should_stop, seek_position, volume, current_time,
                    sample_buffer, session, srcPos, prodLocal, consLocal,
                    new_position, history >>

\* Mutant: Left subtracts the step without the lower clamp.
KeyLeft_NoClamp ==
    /\ kpc = "poll" /\ script # << >> /\ Head(script) = "left"
    /\ new_position' = current_time - SeekSeconds * input_sample_rate
    /\ script' = Tail(script)
    /\ kpc' = "seek_write"
    /\ UNCHANGED << shared, sample_buffer, session, srcPos, prodLocal,
                    consLocal, history >>

\* main.rs:316-318
KeyLeft ==
    /\ kpc = "poll" /\ script # << >> /\ Head(script) = "left"
    /\ ControlCanLock
    /\ new_position' = Max(current_time - SeekSeconds * input_sample_rate, 0)
    /\ script' = Tail(script)
    /\ kpc' = "seek_write"
    /\ UNCHANGED << shared, sample_buffer, session, srcPos, prodLocal,
                    consLocal, history >>

\* main.rs:323-325
KeyRight ==
    /\ kpc = "poll" /\ script # << >> /\ Head(script) = "right"
    /\ ControlCanLock
    /\ new_position' = current_time + SeekSeconds * input_sample_rate
    /\ script' = Tail(script)
    /\ kpc' = "seek_write"
    /\ UNCHANGED << shared, sample_buffer, session, srcPos, prodLocal,
                    consLocal, history >>

\* main.rs:319-320 and 326-327: blocks while the producer holds the
\* seek_position lock across format.seek.
ControlWriteSeek ==
    /\ kpc = "seek_write"
    /\ ControlCanLock
    /\ seek_position' = Some(new_position)
    /\ new_position' = 0
    /\ nReq' = nReq + 1
    /\ kpc' = "head"
    /\ UNCHANGED << is_paused, should_stop, volume, current_time,
                    sample_buffer, session, srcPos, prodLocal, consLocal,
                    script, stale, nSeek >>

\* Mutant: Up adds the step without the upper clamp.
KeyUp_NoClamp ==
    /\ kpc = "poll" /\ script # << >> /\ Head(script) = "up"
    /\ volume' = volume + VolumeStep
    /\ script' = Tail(script)
    /\ kpc' = "head"
    /\ UNCHANGED << is_paused, should_stop, seek_position, current_time,
                    sample_buffer, session, srcPos, prodLocal, consLocal,
                    new_position, history >>

\* main.rs:330-334
KeyUp ==
    /\ kpc = "poll" /\ script # << >> /\ Head(script) = "up"
    /\ ControlCanLock
    /\ volume' = Min(volume + VolumeStep, VolumeMax)
    /\ script' = Tail(script)
    /\ kpc' = "head"
    /\ UNCHANGED << is_paused, should_stop, seek_position, current_time,
                    sample_buffer, session, srcPos, prodLocal, consLocal,
                    new_position, history >>

\* main.rs:335-339
KeyDown ==
    /\ kpc = "poll" /\ script # << >> /\ Head(script) = "down"
    /\ ControlCanLock
    /\ volume' = Max(volume - VolumeStep, 0)
    /\ script' = Tail(script)
    /\ kpc' = "head"
    /\ UNCHANGED << is_paused, should_stop, seek_position, current_time,
                    sample_buffer, session, srcPos, prodLocal, consLocal,
                    new_position, history >>

\* main.rs:340-345
KeyQuit ==
    /\ kpc = "poll" /\ script # << >> /\ Head(script) = "quit"
    /\ ControlCanLock
    /\ should_stop' = TRUE
    /\ script' = Tail(script)
    /\ kpc' = "join"
    /\ UNCHANGED << is_paused, seek_position, volume, current_time,
                    sample_buffer, session, srcPos, prodLocal, consLocal,
                    new_position, history >>

\* main.rs:353: play_thread.join() returns once play() has returned.
ControlJoin ==
    /\ kpc = "join"
    /\ ppc = "done"
    /\ kpc' = "exit"
    /\ UNCHANGED << shared, sample_buffer, session, srcPos, prodLocal,
                    consLocal, new_position, script, history >>

Control ==
    \/ ControlHead
    \/ ControlPollIdle
    \/ KeySpace
    \/ KeyLeft
    \/ KeyRight
    \/ ControlWriteSeek
    \/ KeyUp
    \/ KeyDown
    \/ KeyQuit
    \/ ControlJoin

Next == Producer \/ Callback \/ Control

Spec == Init /\ [][Next]_vars

\* The operating system schedules the decode thread: it is never starved
\* forever.  Nothing is assumed of the device callback or of the keyboard.
\* The loop's control flow does not depend on the channel counts, so the
\* behaviours checked for progress are those of the stereo-to-stereo session.
InitStereo == InitWith({ << 2, 2 >> }, KeyScripts)

FairSpec == InitStereo /\ [][Next]_vars /\ WF_vars(Producer)

TypeOK ==
    /\ is_paused \in BOOLEAN /\ should_stop \in BOOLEAN
    /\ Len(seek_position) <= 1
    /\ volume \in 0..VolumeMax
    /\ current_time >= 0
    /\ srcPos \in 0..NumUnits

\* ============================== claims ==================================

\* C1 (as claimed): after a successful source seek no sample decoded before
\* it stays in the ring buffer ahead of a sample decoded after it, that is,
\* the buffer never holds post-seek samples behind stale ones.
C1_NoStaleAheadOfPostSeek ==
    ~ (stale > 0 /\ Len(sample_buffer) > stale)

\* C2 (as claimed): the ring buffer is never longer than the high-water mark.
C2_LengthWithinMark ==
    Len(sample_buffer) <= HighWaterMark

\* C2 (amended): the producer starts an append only with the buffer at or
\* below the high-water mark, so the buffer is never longer than the mark
\* plus the converted samples of one decoded unit.
C2_LengthWithinMarkPlusUnit ==
    /\ Len(sample_buffer) <= HighWaterMark + UnitFrames * output_channels
    /\ ppc = "append" => Len(sample_buffer) <= HighWaterMark

C2_Witness ==
    /\ Len(sample_buffer) > HighWaterMark
    /\ ppc = "bp_sleep"

\* C3: a callback invocation that read paused = true writes 0.0 to every
\* slot of the request and leaves the ring buffer as it was.
C3_PausedSilence ==
    [][ (cpc = "fill" /\ cpc' = "idle" /\ paused)
          => /\ data' = [ i \in 1..Len(data) |-> 0 ]
             /\ sample_buffer' = sample_buffer ]_vars

C3_Witness ==
    /\ cpc = "idle" /\ paused
    /\ Len(data) > 0 /\ \A i \in 1..Len(data) : data[i] = 0
    /\ Len(sample_buffer) > 0

\* C4: a callback invocation that read paused = false, with n slots and k
\* buffered samples, writes the first min(n,k) buffered samples in order,
\* each times the volume it read, then 0.0; removes exactly those min(n,k)
\* samples from the front; and can always complete, also on an empty buffer.
C4_Drain ==
    /\ [][ (cpc = "fill" /\ cpc' = "idle" /\ ~paused)
             => LET n == Len(data)
                    k == Len(sample_buffer)
                    m == Min(n, k)
                IN /\ Len(data') = n
                   /\ \A i \in 1..n :
                        data'[i] = IF i <= m THEN sample_buffer[i] * vol ELSE 0
                   /\ sample_buffer' = SubSeq(sample_buffer, m + 1, k) ]_vars
    /\ [](cpc = "fill" => ENABLED CallbackFill)

\* The request outran the buffer part-way, at a volume other than 1.0.
C4_Witness ==
    /\ cpc = "idle" /\ ~paused /\ vol # VolumeInit
    /\ Len(data) > 1 /\ data[1] # 0 /\ data[Len(data)] = 0

\* C5: with stop requested during the paused poll, the loop goes from the
\* sleep to the loop head and from there to its end: no second sleep, no
\* read, no decode, no append, and un-pausing is not needed.
C5_StopWhilePaused ==
    /\ [][ (should_stop /\ is_paused /\ ppc = "chk_pause")
             => ppc' \in {"chk_pause", "pause_sleep"} ]_vars
    /\ [][ (should_stop /\ ppc = "pause_sleep")
             => ppc' \in {"pause_sleep", "head"} ]_vars
    /\ [][ (should_stop /\ ppc = "head")
             => ppc' \in {"head", "done"} ]_vars
    /\ [][ (should_stop /\ ppc \in {"pause_sleep", "head"})
             => /\ srcPos' = srcPos
                /\ current_time' = current_time
                /\ Len(sample_buffer') <= Len(sample_buffer)
                /\ is_paused' = is_paused ]_vars
    /\ (should_stop /\ is_paused /\ ppc \in {"chk_pause", "pause_sleep", "head"})
          ~> (ppc = "done")

C5_Witness ==
    should_stop /\ is_paused /\ ppc = "pause_sleep"

\* C6: once stop is requested the decode-produce loop eventually ends,
\* whatever it was doing and whether or not the callback drains the buffer.
C6_StopTerminates ==
    should_stop ~> (ppc = "done")

\* Stop arrives in the backpressure wait, playback paused, buffer over the mark.
C6_Witness ==
    /\ should_stop /\ is_paused
    /\ ppc = "bp_sleep"
    /\ Len(sample_buffer) > HighWaterMark

\* C7: a seek requested during the backpressure wait gets the producer out
\* of the wait with no help from the callback; the request stays pending
\* (nothing is read from the source) until the loop head takes it, and
\* taking it performs the source-level seek; once out of the wait the loop
\* head does take it, unless playback is found paused or stopped.
InBpWait ==
    \/ ppc \in {"bp_sleep", "bp_stop", "bp_seek"}
    \/ ppc = "bp_check" /\ Len(sample_buffer) > HighWaterMark

BeforeTake ==
    {"bp_check", "bp_sleep", "bp_stop", "bp_seek", "bp_clear", "append",
     "head", "chk_pause", "pause_sleep", "seek"}

C7_SeekNotStarved ==
    /\ [][ (seek_position # None /\ ppc \in BeforeTake)
             => \/ /\ seek_position' # None
                   /\ ppc' \in BeforeTake \cup {"done"}
                   /\ ppc' = "done" => should_stop
                \/ /\ ppc' = "seeking"
                   /\ pos' = seek_position[1] ]_vars
    /\ [][ (ppc = "seeking" /\ ppc' # "seeking")
             => nSeek' = nSeek + 1 /\ ppc' = "read" ]_vars
    /\ (seek_position # None /\ InBpWait)
          ~> (~InBpWait /\ (ppc = "seeking" \/ is_paused \/ should_stop))

C7_Witness ==
    /\ seek_position # None
    /\ ppc = "bp_seek"
    /\ Len(sample_buffer) > HighWaterMark
    /\ ~is_paused /\ ~should_stop

\* C8: the loop head's take empties the pending-seek field and performs the
\* value it held (the last one written); the peek of the backpressure wait
\* leaves the field as it is; the field becomes non-empty only by a request;
\* and source-level seeks never outnumber requests.
C8_SeekAtMostOnce ==
    /\ [](nSeek <= nReq)
    /\ [][ (ppc = "seek" /\ ppc' = "seeking")
             => seek_position' = None /\ pos' = seek_position[1] ]_vars
    /\ [][ (ppc = "seek" /\ ppc' = "read") => seek_position = None ]_vars
    /\ [][ (ppc = "bp_seek" /\ ppc' # "bp_seek")
             => seek_position' = seek_position ]_vars
    /\ [][ (seek_position' # seek_position /\ seek_position' # None)
             => nReq' = nReq + 1 /\ seek_position' = Some(new_position) ]_vars

\* Two requests were written and a single seek served them.
C8_Witness ==
    /\ nReq = 2 /\ nSeek = 1
    /\ seek_position = None
    /\ ppc = "decode"

\* C9: a failed source seek leaves elapsed time and the read position as
\* they were, a successful one sets elapsed time to the target; either way
\* the request is gone and the loop goes on to read the next unit.
C9_SeekOutcome ==
    [][ (ppc = "seeking" /\ ppc' # "seeking")
          => /\ ppc' = "read"
             /\ seek_position' = None
             /\ IF perr' = "seek"
                THEN current_time' = current_time /\ srcPos' = srcPos
                ELSE current_time' = pos ]_vars

C9_Witness ==
    /\ ppc = "read" /\ perr = "seek"
    /\ current_time > 0
    /\ seek_position = None

\* C10: reading a unit changes neither the ring buffer nor elapsed time; a
\* failed decode leaves both unchanged too and sends the loop back to its
\* head; a read error ends the loop.
C10_FailedUnit ==
    /\ [][ (ppc = "read" /\ ppc' # "read")
             => /\ sample_buffer' = sample_buffer
                /\ current_time' = current_time
                /\ perr' = "read" => ppc' = "done" ]_vars
    /\ [][ (ppc = "decode" /\ perr' = "decode")
             => /\ ppc' = "head"
                /\ sample_buffer' = sample_buffer
                /\ current_time' = current_time
                /\ buf' = << >> ]_vars

C10_Witness ==
    /\ ppc = "head" /\ perr = "decode"
    /\ Len(sample_buffer) > 0
    /\ srcPos < NumUnits

\* ---- sessions of volume keys --------------------------------------------
\* The user holds Up, or holds Down, from the initial volume; the other
\* sessions press every other key.
VolumeScripts ==
    { [ i \in 1..UpPresses |-> "up" ],
      [ i \in 1..DownPresses |-> "down" ],
      << "space", "quit" >>,
      << "right", "left" >> }

InitVolume == InitWith({ << 2, 2 >> }, VolumeScripts)

VolumeSpec == InitVolume /\ [][Next]_vars

\* C11: the volume is within [0.0, 2.0] in every reachable state; an Up
\* adds 0.1 capped at 2.0 and a Down subtracts 0.1 floored at 0.0, whatever
\* else runs in between; no other step changes the volume; twenty Up presses
\* from 1.0 leave the volume at 2.0 and a further Up leaves it there.
C11_VolumeRange ==
    /\ [](volume >= 0 /\ volume <= VolumeMax)
    /\ [][ volume' # volume
             => /\ kpc = "poll" /\ Head(script) \in {"up", "down"}
                /\ Head(script) = "up" => volume' = volume + VolumeStep
                /\ Head(script) = "down" => volume' = volume - VolumeStep ]_vars
    /\ [][ (volume = VolumeMax /\ kpc = "poll" /\ script # << >>
              /\ Head(script) = "up" /\ script' # script)
             => volume' = VolumeMax ]_vars
    /\ [][ (volume = 0 /\ kpc = "poll" /\ script # << >>
              /\ Head(script) = "down" /\ script' # script)
             => volume' = 0 ]_vars
    /\ [](script = [ i \in 1..(UpPresses - 20) |-> "up" ] => volume = VolumeMax)

\* All the Up presses of the long session are done: more than twenty.
C11_Witness ==
    /\ volume = VolumeMax
    /\ script = << >>
    /\ kpc = "head"

\* C12: a Left request computes max(elapsed - 5 s, 0), which is 0 when
\* elapsed is below 5 s; a Right request computes elapsed + 5 s; the value
\* written to the pending seek is the one computed; and neither the pending
\* seek, nor the target being sought, nor elapsed time is ever negative.
C12_SeekTargetNonNegative ==
    /\ [](/\ current_time >= 0
          /\ new_position >= 0
          /\ pos >= 0
          /\ seek_position # None => seek_position[1] >= 0)
    /\ [][ (kpc = "poll" /\ kpc' = "seek_write" /\ Head(script) = "left")
             => new_position' =
                  IF current_time < SeekSeconds * input_sample_rate THEN 0
                  ELSE current_time - SeekSeconds * input_sample_rate ]_vars
    /\ [][ (kpc = "poll" /\ kpc' = "seek_write" /\ Head(script) = "right")
             => new_position' = current_time + SeekSeconds * input_sample_rate ]_vars
    /\ [][ (kpc = "seek_write" /\ kpc' # "seek_write")
             => seek_position' = Some(new_position) ]_vars

\* Left was pressed with elapsed time above zero and below five seconds.
C12_Witness ==
    /\ seek_position = Some(0)
    /\ current_time > 0
    /\ current_time < SeekSeconds * input_sample_rate
    /\ script = << >>

\* ---- sessions of every channel layout ------------------------------------
\* Sources and devices of one to three channels; the user presses one key.
RemapPairs ==
    { << 2, 2 >>, << 1, 2 >>, << 2, 1 >>,
      << 3, 1 >>, << 3, 2 >>, << 1, 3 >>, << 2, 3 >> }

RemapScripts ==
    { << "space" >>, << "quit" >>, << "left" >>, << "right" >>,
      << "up" >>, << "down" >> }

InitRemap == InitWith(RemapPairs, RemapScripts)

RemapSpec == InitRemap /\ [][Next]_vars

\* C13: appending a decoded unit of F whole input frames leaves what was
\* buffered in place and adds exactly F * output_channels samples, frame by
\* frame in order: the same samples for equal channel counts; the sample
\* twice for 1 to 2; the mean of the two for 2 to 1; else the frame's first
\* output_channels samples when the source has at least as many channels;
\* else the frame's first sample in every slot.
C13_Remap ==
    [][ (ppc = "append" /\ ppc' = "head")
          => LET F == Len(buf) \div input_channels
                 k == Len(sample_buffer)
                 in(f, c) == buf[f * input_channels + c]
                 out(f, c) == sample_buffer'[k + f * output_channels + c]
             IN /\ Len(buf) = F * input_channels
                /\ Len(sample_buffer') = k + F * output_channels
                /\ SubSeq(sample_buffer', 1, k) = sample_buffer
                /\ \A f \in 0..(F - 1) : \A c \in 1..output_channels :
                     out(f, c) =
                       IF input_channels = output_channels THEN in(f, c)
                       ELSE IF input_channels = 1 /\ output_channels = 2 THEN in(f, 1)
                       ELSE IF input_channels = 2 /\ output_channels = 1
                            THEN (in(f, 1) + in(f, 2)) \div 2
                       ELSE IF input_channels >= output_channels THEN in(f, c)
                       ELSE in(f, 1) ]_vars

\* A unit of a 3-channel source was appended for a 2-channel device, behind
\* samples already buffered.
C13_Witness ==
    /\ input_channels = 3 /\ output_channels = 2
    /\ ppc = "head" /\ perr = "none"
    /\ Len(sample_buffer) > UnitFrames * output_channels

\* C14: while the decode-produce loop sleeps, in the pause poll or in the
\* backpressure wait, it holds no lock, so whichever lock the callback
\* acquires next (paused, volume, buffer) it acquires without waiting.
C14_SleepsWithoutLock ==
    /\ [](ppc \in {"pause_sleep", "bp_sleep"} => ProducerHolds = {})
    /\ [](ppc \in {"pause_sleep", "bp_sleep"} => CallbackCanLock)
    /\ [](ppc \in {"pause_sleep", "bp_sleep"} =>
            /\ cpc = "idle" => ENABLED CallbackStart
            /\ cpc = "vol" => ENABLED CallbackVolume
            /\ cpc = "fill" => ENABLED CallbackFill)

\* The callback is about to lock the buffer during a backpressure sleep.
C14_Witness ==
    /\ ppc = "bp_sleep"
    /\ cpc = "fill" /\ ~paused
    /\ CallbackNeeds = {"sample_buffer"}

\* ---- lock order ----------------------------------------------------------
\* << held, acquired >>: the nested acquisitions of the program, main.rs:130
\* with 139 and main.rs:188 with 193.
LockOrder ==
    { << "seek_position", "current_time" >>,
      << "sample_buffer", "current_time" >> }

\* R and the pairs joined by two pairs of R in a row.
Chained(R) ==
    R \cup { << ab[1][1], ab[2][2] >> :
               ab \in { xy \in R \X R : xy[1][2] = xy[2][1] } }

\* Pairs of locks joined by a chain of one to eight nestings.
OrderChains == Chained(Chained(Chained(LockOrder)))

\* Some actors wait for each other in a circle.
ProducerWaitsOn(held) == ProducerNeeds \cap held # {}
CallbackWaitsOn(held) == CallbackNeeds \cap held # {}
ControlWaitsOn(held) == ControlNeeds \cap held # {}

WaitCycle ==
    \/ ProducerWaitsOn(ControlHolds) /\ ControlWaitsOn(ProducerHolds)
    \/ ProducerWaitsOn(CallbackHolds) /\ CallbackWaitsOn(ProducerHolds)
    \/ ControlWaitsOn(CallbackHolds) /\ CallbackWaitsOn(ControlHolds)
    \/ /\ ProducerWaitsOn(ControlHolds)
       /\ ControlWaitsOn(CallbackHolds)
       /\ CallbackWaitsOn(ProducerHolds)
    \/ /\ ProducerWaitsOn(CallbackHolds)
       /\ CallbackWaitsOn(ControlHolds)
       /\ ControlWaitsOn(ProducerHolds)

\* C15: no reachable state has actors that each hold a lock and wait for a
\* lock another of them holds; whenever an actor holding a lock goes for a
\* second one, the pair is one of the program's two nestings (pending seek
\* then elapsed time, buffer then elapsed time), and these form no cycle.
C15_NoDeadlock ==
    /\ [](~WaitCycle)
    /\ [](/\ ProducerHolds \X ProducerNeeds \subseteq LockOrder
          /\ CallbackHolds \X CallbackNeeds \subseteq LockOrder
          /\ ControlHolds \X ControlNeeds \subseteq LockOrder)
    /\ [](\A p \in OrderChains : p[1] # p[2])

\* The control loop waits for the pending-seek lock while the producer,
\* holding it across format.seek, is about to lock elapsed time.
C15_Witness ==
    /\ ppc = "seeking" /\ kpc = "seek_write"
    /\ ControlWaitsOn(ProducerHolds)
    /\ ProducerNeeds = {"current_time"}

\* ---- the session to its end ----------------------------------------------
\* Both the decode thread and the main thread are scheduled; event::poll
\* returns after its timeout at the latest.  Nothing is assumed of the
\* device callback or of the keyboard.
FairSession ==
    InitStereo /\ [][Next]_vars /\ WF_vars(Producer) /\ WF_vars(Control)

\* C16: with the producer thread finished, the control loop leaves at its
\* next loop head, which it reaches after at most the poll it is in and the
\* key that poll returned; a quit key sets stop and leaves the loop; the
\* join is the last thing done; and once the producer has finished or stop
\* is requested, the control loop and its join do come to their end.
C16_SessionEnds ==
    /\ [][ (ppc = "done" /\ kpc = "head") => kpc' \in {"head", "join"} ]_vars
    /\ [][ (ppc = "done" /\ kpc = "poll")
             => kpc' \in {"poll", "head", "seek_write", "join"} ]_vars
    /\ [][ (ppc = "done" /\ kpc = "seek_write")
             => kpc' \in {"seek_write", "head"} ]_vars
    /\ [][ (kpc = "poll" /\ script # << >> /\ Head(script) = "quit"
              /\ script' # script)
             => should_stop' /\ kpc' = "join" ]_vars
    /\ [][ (kpc = "join" => kpc' \in {"join", "exit"})
          /\ (kpc = "exit" => kpc' = "exit") ]_vars
    /\ [](kpc = "exit" => ppc = "done")
    /\ (ppc = "done" \/ should_stop) ~> (kpc = "exit")

\* The source ran to its end and the control loop left with no quit key,
\* a key of the session still not pressed.
C16_Witness ==
    /\ kpc = "exit"
    /\ ppc = "done" /\ perr = "none"
    /\ ~should_stop
    /\ script # << >>

\* C17: elapsed time starts at 0 and changes in two ways only, both steps
\* of the decode-produce loop: a successful source seek sets it to the
\* target, and the append of a decoded unit adds the unit's samples divided
\* by the source's channel count and sample rate (here: its frames, time
\* being counted in source frames).  So it always is the last successful
\* target plus the durations of the units appended since.  Steps of the
\* control loop and of the callback, and failed seeks, leave it as it is.
C17_ElapsedTracksProduction ==
    /\ [](ppc = "start" => current_time = 0)
    /\ [][ current_time' # current_time
             => \/ ppc = "seeking" /\ perr' = "none" /\ current_time' = pos
                \/ ppc = "append" ]_vars
    /\ [][ (ppc = "append" /\ ppc' = "head")
             => /\ Len(buf) = UnitFrames * input_channels
                /\ current_time' * input_channels
                     = current_time * input_channels + Len(buf) ]_vars
    /\ [][ (ppc = "seeking" /\ ppc' = "read")
             => current_time' = IF perr' = "none" THEN pos ELSE current_time ]_vars
    /\ [][ (cpc' # cpc \/ kpc' # kpc \/ script' # script
              \/ is_paused' # is_paused \/ volume' # volume
              \/ Len(sample_buffer') < Len(sample_buffer))
             => current_time' = current_time ]_vars

\* One seek, successful, to five seconds, and one mono unit appended to a
\* stereo device since.
C17_Witness ==
    /\ nSeek = 1
    /\ current_time = SeekSeconds * input_sample_rate + UnitFrames
    /\ ppc = "head" /\ perr = "none"
    /\ input_channels = 1 /\ output_channels = 2
    /\ Len(sample_buffer) > 0

\* ---- sessions with a pause ------------------------------------------------
\* The user pauses, asks for a seek and un-pauses; the other sessions press
\* the remaining keys.  The decode thread is scheduled.
PauseScripts ==
    { << "space", "right", "space" >>,
      << "up", "down" >>,
      << "left", "quit" >> }

InitPause == InitWith({ << 2, 2 >> }, PauseScripts)

PauseSpec == InitPause /\ [][Next]_vars /\ WF_vars(Producer)

\* In the session that pauses, seeks and un-pauses: playback is still paused
\* and the seek request has been written, hence written during the pause.
SeekRequestedInPause ==
    /\ is_paused
    /\ script = << "space" >>
    /\ nReq = 1

\* C18 (as claimed, its last part): a seek requested while paused is not
\* performed during the pause but stays pending.
C18_SeekWaitsForUnpause ==
    SeekRequestedInPause => (seek_position # None /\ nSeek = 0)

\* The loop is at its head, at the pause check or in the pause sleep.
AtLoopHead == ppc \in {"head", "chk_pause", "pause_sleep"}

\* C18 (amended): with the loop at its head and playback paused, every step
\* leaves the loop at its head (or ends it, on stop), reads and decodes
\* nothing, appends nothing, performs no seek and keeps a pending seek
\* pending; the ring buffer grows only by the append that ends a loop
\* iteration, so the iteration in flight when paused was set appends at
\* most one unit; a pending seek found at the loop head is taken before any
\* unit is read; and with playback not paused it is performed, unless the
\* loop finds playback paused again or stopped.
C18_PauseHaltsProduction ==
    /\ [][ (is_paused /\ AtLoopHead)
             => /\ ppc' \in {"head", "chk_pause", "pause_sleep", "done"}
                /\ ppc' = "done" => should_stop
                /\ srcPos' = srcPos
                /\ buf' = buf
                /\ nSeek' = nSeek
                /\ current_time' = current_time
                /\ Len(sample_buffer') <= Len(sample_buffer)
                /\ seek_position # None => seek_position' # None ]_vars
    /\ [][ Len(sample_buffer') > Len(sample_buffer)
             => ppc = "append" /\ ppc' = "head" ]_vars
    /\ [][ (seek_position # None /\ AtLoopHead)
             => ppc' \in {"head", "chk_pause", "pause_sleep", "seek", "done"} ]_vars
    /\ [][ (seek_position # None /\ ppc = "seek")
             => ppc' \in {"seek", "seeking"} ]_vars
    /\ (seek_position # None /\ AtLoopHead /\ ~is_paused)
          ~> (ppc = "seeking" \/ is_paused \/ should_stop)

\* The request written during the pause is pending while the loop sleeps.
C18_Witness ==
    /\ SeekRequestedInPause
    /\ seek_position # None /\ nSeek = 0
    /\ ppc = "pause_sleep"

\* The loop ended on a clean end-of-stream: play() has dropped the stream
\* and returned, with no error reported and no stop requested.
EndedAtEof ==
    /\ ppc = "done"
    /\ perr = "none"
    /\ ~should_stop

\* C19 (as claimed): when the producer has ended on a clean end-of-stream,
\* playback not paused and stop not requested, no appended sample is left
\* undelivered in the ring buffer; here in the sessions with no seek request,
\* where no sample is ever discarded.
C19_DrainedAtEof ==
    (EndedAtEof /\ ~is_paused /\ nReq = 0) => sample_buffer = << >>

\* C20: between steps, when nobody holds the buffer lock, the ring buffer
\* holds whole output frames: its length is a multiple of output_channels,
\* and every group of output_channels samples from the front is one frame
\* as the conversion made it (channel c of a decoded frame is its first
\* channel plus 2 * (c - 1); an up-mix repeats the first channel), so the
\* front sample is a frame's first channel.
C20_WholeFrames ==
    /\ Len(sample_buffer) % output_channels = 0
    /\ \A j \in 0..((Len(sample_buffer) \div output_channels) - 1) :
         \A c \in 1..output_channels :
           sample_buffer[j * output_channels + c]
             = sample_buffer[j * output_channels + 1]
                 + (IF input_channels >= output_channels THEN 2 * (c - 1) ELSE 0)

\* On a 3-channel device a request of two frames found one frame buffered,
\* and a unit was appended to the emptied buffer afterwards.
C20_Witness ==
    /\ input_channels = 2 /\ output_channels = 3
    /\ cpc = "idle" /\ ~paused
    /\ Len(data) = 2 * output_channels
    /\ data[output_channels] # 0 /\ data[output_channels + 1] = 0
    /\ Len(sample_buffer) > 0
====
